---- MODULE Spec2Model ----
(***************************************************************************)
(* Model of the connection manager of antihax/pass (package conman):       *)
(*   - tcpManager / CreateTCPListener: SYN-triggered listener creation     *)
(*     (src/internal/conman/tcpmanager.go, lines 19-101);                  *)
(*   - handleConnection: ban check, sniff, TLS unwrap, raw capture and     *)
(*     routing of one accepted connection (lines 103-190);                 *)
(*   - Store: the artifact sinks (src/pkg/conman/store.go);                *)
(*   - the rdp driver (src/unnamed/part_000).                              *)
(* Code of the repository that is not among the sources (muxconn, tickBan, *)
(* sendBanner, timeoutConnection, unwrapTLS, the rule matcher, GetHash) is *)
(* modelled from the specification text.                                  *)
(***************************************************************************)
EXTENDS Integers, Sequences, FiniteSets, TLC

\* ------------------------------------------------------------------ bounds
\* config.MaxPort: the highest port a listener may be created for.
MaxPort == 2
\* Ports that can show up as a destination port: one above MaxPort included.
Ports == 1..(MaxPort + 1)
\* Concurrent callers of CreateTCPListener; caller Observer is the goroutine
\* of tcpManager, the others call the exported method directly.
Callers == {1, 2}
Observer == 1
\* TCP flag sets of a raw packet (probe.SYN, ACK).
FlagSets == {{}, {"SYN"}, {"ACK"}, {"SYN", "ACK"}}

VARIABLES
    tcpListeners,   \* s.tcpListeners: port -> listener handle (0: no entry)
    osBound,        \* kernel: port -> handle of this process's listening socket (0: none)
    extBusy,        \* ports held by other programs: net.Listen fails on them
    acceptTasks,    \* port -> number of accept goroutines spawned for it
    mapWriting,     \* the runtime's hashWriting flag of s.tcpListeners
    crashed,        \* the runtime threw a fatal error (concurrent map access)
    cpc,            \* caller -> position in CreateTCPListener
    cport,          \* caller -> port argument of its current / last call
    cret,           \* caller -> outcome of its last call
    clate,          \* caller -> the registry held cport when the call began
    requested       \* ports CreateTCPListener has been called for

lvars == <<tcpListeners, osBound, extBusy, acceptTasks, mapWriting, crashed,
           cpc, cport, cret, clate, requested>>

VARIABLES
    conn,           \* connection slot -> the handler's locals and the connection's state
    strikes,        \* ban tracker: source ip -> strike count
    knownHashes,    \* s.knownHashes: hashes already captured
    storeChan,      \* s.storeChan: artifact records not yet consumed
    connCh,         \* driver -> its MuxListener's ConnCh (slots delivered, not yet accepted)
    patterns,       \* driver -> registered patterns (s.tcpRules), fixed at start
    accepted,       \* number of connections accepted so far
    rawSent         \* the filename of every raw artifact sent on storeChan so far

hvars == <<conn, strikes, knownHashes, storeChan, connCh, patterns, accepted, rawSent>>

VARIABLES
    pkt,            \* tcpManager: the outcome of the last conn.ReadFrom and what the loop did with it
    bindAddress,    \* s.config.BindAddress
    addresses,      \* s.addresses: the local addresses discovered at start
    address,        \* CreateTCPListener's local: the address to bind
    ai,             \* position in the address selection (0: not begun; Len(addresses) + 1: done)
    outputFolder,   \* s.config.OutputFolder
    s3Key,          \* s.config.S3Key
    uploader,       \* s.uploader # nil
    dirs,           \* file system: the directories that exist
    files,          \* file system: the files written
    setup,          \* setupStore: "init" (not called), "ok" (returned nil), "err" (returned an error)
    storeLog,       \* per record Store was called with: what each sink did
    lnListener,     \* driver -> the Listener field of the MuxListener it serves (0: nil)
    rdp             \* the locals of one rdp connection goroutine and its connection

evars == <<bindAddress, addresses, address, ai, outputFolder, s3Key, uploader,
           dirs, files, setup, storeLog, lnListener, rdp>>
xvars == <<evars, pkt>>

vars == <<lvars, hvars, xvars>>

\* ------------------------------------------------------- CreateTCPListener

\* The guard with the bound taken exclusive (a variant of line 58).
PortAboveMax_Inclusive(p) == p >= MaxPort
\* line 58: if port > s.config.MaxPort
PortAboveMax(p) == p > MaxPort

\* The lookup that never finds an entry (a variant of line 78).
RegistryHas_Never(p) == FALSE
\* line 78: _, ok := s.tcpListeners[port]
RegistryHas(p) == tcpListeners[p] # 0

\* line 80: net.Listen("tcp", addr) succeeds iff nothing listens on the port.
ListenSucceeds(p) == osBound[p] = 0 /\ p \notin extBusy

\* Entry of CreateTCPListener(port) by caller c (lines 55-60): the MaxPort
\* guard returns (false, error) at once.
Enter(c, p) ==
    /\ ~crashed
    /\ cpc[c] = "idle"
    /\ cport' = [cport EXCEPT ![c] = p]
    /\ clate' = [clate EXCEPT ![c] = tcpListeners[p] # 0]
    /\ requested' = requested \cup {p}
    /\ IF PortAboveMax(p)
         THEN /\ cret' = [cret EXCEPT ![c] = "rejected"]
              /\ cpc' = cpc
         ELSE /\ cret' = [cret EXCEPT ![c] = "none"]
              /\ cpc' = [cpc EXCEPT ![c] = "check"]
    /\ UNCHANGED <<tcpListeners, osBound, extBusy, acceptTasks, mapWriting, crashed>>
    /\ UNCHANGED <<hvars, evars>>

\* tcpManager's loop body (lines 28-49): one packet read from the raw socket;
\* a packet with the SYN bit set asks for a listener on its destination port.
RawRead(flags, dport) ==
    /\ ~crashed
    /\ cpc[Observer] = "idle"
    /\ IF "SYN" \in flags
         THEN Enter(Observer, dport)
         ELSE UNCHANGED <<lvars, hvars, evars>>
    /\ UNCHANGED pkt

\* A direct call of the exported method by another goroutine.
Call(c, p) ==
    /\ c # Observer
    /\ Enter(c, p)
    /\ UNCHANGED pkt

\* line 78: the unsynchronised map read. The runtime throws "concurrent map
\* read and map write" when it meets a write in progress.
CheckRegistry(c) ==
    /\ ~crashed
    /\ cpc[c] = "check"
    /\ IF mapWriting
         THEN /\ crashed' = TRUE
              /\ UNCHANGED <<cpc, cret>>
         ELSE /\ crashed' = crashed
              /\ IF RegistryHas(cport[c])
                   THEN /\ cret' = [cret EXCEPT ![c] = "present"]    \* line 100
                        /\ cpc' = [cpc EXCEPT ![c] = "idle"]
                   ELSE /\ cret' = cret
                        /\ cpc' = [cpc EXCEPT ![c] = "listen"]
    /\ UNCHANGED <<tcpListeners, osBound, extBusy, acceptTasks, mapWriting,
                   cport, clate, requested>>
    /\ UNCHANGED <<hvars, xvars>>

\* The bind whose failure is not returned (a variant of lines 81-83).
Listen_NoReturn(c) ==
    /\ ~crashed
    /\ cpc[c] = "listen"
    /\ osBound' = IF ListenSucceeds(cport[c])
                    THEN [osBound EXCEPT ![cport[c]] = c] ELSE osBound
    /\ cpc' = [cpc EXCEPT ![c] = "store"]
    /\ cret' = cret
    /\ UNCHANGED <<tcpListeners, extBusy, acceptTasks, mapWriting, crashed,
                   cport, clate, requested>>
    /\ UNCHANGED <<hvars, xvars>>
\* lines 79-83: net.Listen; on failure return (true, err).
Listen(c) ==
    /\ ~crashed
    /\ cpc[c] = "listen"
    /\ IF ListenSucceeds(cport[c])
         THEN /\ osBound' = [osBound EXCEPT ![cport[c]] = c]
              /\ cpc' = [cpc EXCEPT ![c] = "store"]
              /\ cret' = cret
         ELSE /\ osBound' = osBound
              /\ cpc' = [cpc EXCEPT ![c] = "idle"]
              /\ cret' = [cret EXCEPT ![c] = "binderr"]
    /\ UNCHANGED <<tcpListeners, extBusy, acceptTasks, mapWriting, crashed,
                   cport, clate, requested>>
    /\ UNCHANGED <<hvars, xvars>>

\* line 84, first half: the map assignment sets hashWriting; the runtime
\* throws "concurrent map writes" when the flag is already set.
StoreBegin(c) ==
    /\ ~crashed
    /\ cpc[c] = "store"
    /\ IF mapWriting
         THEN /\ crashed' = TRUE
              /\ UNCHANGED <<cpc, mapWriting>>
         ELSE /\ crashed' = crashed
              /\ mapWriting' = TRUE
              /\ cpc' = [cpc EXCEPT ![c] = "storing"]
    /\ UNCHANGED <<tcpListeners, osBound, extBusy, acceptTasks, cport, cret,
                   clate, requested>>
    /\ UNCHANGED <<hvars, xvars>>

\* line 84, second half: the entry is written and the flag cleared.
StoreEnd(c) ==
    /\ ~crashed
    /\ cpc[c] = "storing"
    /\ tcpListeners' = [tcpListeners EXCEPT ![cport[c]] = osBound[cport[c]]]
    /\ mapWriting' = FALSE
    /\ cpc' = [cpc EXCEPT ![c] = "spawn"]
    /\ UNCHANGED <<osBound, extBusy, acceptTasks, crashed, cport, cret, clate,
                   requested>>
    /\ UNCHANGED <<hvars, xvars>>

\* lines 87-97: go func() { for { ln.Accept() ... } }(); return false, nil
SpawnAccept(c) ==
    /\ ~crashed
    /\ cpc[c] = "spawn"
    /\ acceptTasks[cport[c]] < Cardinality(Callers)
    /\ acceptTasks' = [acceptTasks EXCEPT ![cport[c]] = @ + 1]
    /\ cret' = [cret EXCEPT ![c] = "created"]
    /\ cpc' = [cpc EXCEPT ![c] = "idle"]
    /\ UNCHANGED <<tcpListeners, osBound, extBusy, mapWriting, crashed, cport,
                   clate, requested>>
    /\ UNCHANGED <<hvars, xvars>>

\* ------------------------------------------------------ connection data

\* The read buffer of handleConnection (make([]byte, 1500)), scaled down.
BufLen == 3
\* config.BanThreshold.
BanThreshold == 1
\* Connections accepted in one run: enough for a ban and one more.
MaxAccepts == BanThreshold + 2
\* Strike counts are followed up to this value.
MaxStrikes == BanThreshold + 2
\* buf[0] == 0x16: the TLS handshake record type.
TLSByte == 22

Conns == {1, 2}
IPs == {"a", "b"}
Drivers == <<"rdp", "aux">>
DriverSet == {Drivers[i] : i \in 1..Len(Drivers)}
\* rdp.Patterns(): {3, 0, 0}
RdpPatterns == {<<3, 0, 0>>}
\* Pattern sets the second driver may have registered.
AuxPatternSets ==
    {{}, {<<0>>}, {<<3>>, <<71, 71>>}, {<<TLSByte>>, <<71>>}, {<<TLSByte, 0>>}}
\* Ports with a configured banner.
BannerPorts == {1}

\* What a client does on its connection. stream: the bytes it puts on the
\* wire; mode: "send" (the bytes arrive, then the client waits), "eof" (it
\* closes after them), "stall" (it sends nothing and keeps the connection
\* open), "rst" (it resets the connection); tls: the outcome of a TLS
\* handshake with it ("ok", "fail", or "stall": the client never completes
\* it and keeps the connection open); clear: the cleartext it sends inside TLS.
Script(stream, mode, tls, clear) ==
    [stream |-> stream, mode |-> mode, tls |-> tls, clear |-> clear]
NoScript == Script(<<>>, "none", "none", <<>>)
PlainScripts ==
    { Script(<<3, 0, 0, 71>>, "send", "none", <<>>),
      Script(<<3>>, "send", "none", <<>>),
      Script(<<71, 71>>, "send", "none", <<>>),
      Script(<<>>, "eof", "none", <<>>),
      Script(<<>>, "stall", "none", <<>>),
      Script(<<>>, "rst", "none", <<>>) }
TLSScripts ==
    { Script(<<TLSByte, 1, 2>>, "send", "ok", <<71, 71>>),
      Script(<<TLSByte, 1, 2>>, "send", "fail", <<>>),
      Script(<<TLSByte, 1, 2>>, "send", "stall", <<>>) }
Scripts == PlainScripts \cup TLSScripts

Min(a, b) == IF a < b THEN a ELSE b

Take(s, m) == SubSeq(s, 1, Min(m, Len(s)))
Drop(s, m) == SubSeq(s, Min(m, Len(s)) + 1, Len(s))

\* buf after a read of the bytes b into a zeroed buffer of BufLen bytes.
Fill(b) == [i \in 1..BufLen |-> IF i <= Len(b) THEN b[i] ELSE 0]

IsPrefix(p, b) == Len(p) <= Len(b) /\ SubSeq(b, 1, Len(p)) = p

\* ------------------------------------------------------------- muxconn

\* muxconn.MuxConn: the sniffing connection. mode: "sniff" (reads are kept
\* in buf), "done" (reads bypass buf), "replay" (reads drain buf from pos,
\* then fall through to the source); src: the stream it wraps.
NoMux == [mode |-> "none", buf |-> <<>>, pos |-> 0, src |-> "wire"]
NewMuxConn(src) == [mode |-> "done", buf |-> <<>>, pos |-> 0, src |-> src]
StartSniffing(m) == [m EXCEPT !.mode = "sniff"]
DoneSniffing(m) == [m EXCEPT !.mode = "done"]
Reset(m) == [m EXCEPT !.mode = "replay", !.pos = 0]

\* Whether a read of m is served from the replay buffer.
Replaying(m) == m.mode = "replay" /\ m.pos < Len(m.buf)

\* MuxConn.Read of at most max bytes, t of them taken from the source avail:
\* the bytes returned, the sniffer and the source afterwards.
MuxRead(m, avail, max, t) ==
    IF Replaying(m)
      THEN [out  |-> SubSeq(m.buf, m.pos + 1, Min(Len(m.buf), m.pos + max)),
            mux  |-> [m EXCEPT !.pos = Min(Len(m.buf), m.pos + max)],
            rest |-> avail]
      ELSE [out  |-> Take(avail, t),
            mux  |-> IF m.mode = "sniff"
                       THEN [m EXCEPT !.buf = m.buf \o Take(avail, t)]
                       ELSE m,
            rest |-> Drop(avail, t)]

\* drivers.GetHash: the fingerprint of the sniffed bytes (collision-free here).
GetHash(b) == <<"hash", b>>

\* s.tcpRules.Match: the driver whose pattern is the longest prefix of b, the
\* earlier registered driver on a tie; "none" when no pattern is a prefix.
MatchLen(d, b) ==
    LET ls == {Len(p) : p \in {q \in patterns[d] : IsPrefix(q, b)}}
    IN  IF ls = {} THEN 0 ELSE CHOOSE l \in ls : \A o \in ls : o <= l
Match(b) ==
    LET best == CHOOSE l \in {MatchLen(Drivers[i], b) : i \in 1..Len(Drivers)} :
                    \A i \in 1..Len(Drivers) : MatchLen(Drivers[i], b) <= l
    IN  IF best = 0 THEN "none"
        ELSE Drivers[CHOOSE i \in 1..Len(Drivers) :
                        /\ MatchLen(Drivers[i], b) = best
                        /\ \A j \in 1..(i - 1) : MatchLen(Drivers[j], b) # best]

\* tickBan: count a strike for ip; banned iff the new count exceeds the threshold.
Ticked(ip) == Min(strikes[ip] + 1, MaxStrikes)
Banned(count) == count > BanThreshold

\* ---------------------------------------------------- handleConnection

FreeConn ==
    [pc |-> "free", ip |-> "a", port |-> 1, script |-> NoScript,
     sock |-> <<>>, clear |-> <<>>, mux |-> NoMux,
     buf |-> Fill(<<>>), n |-> 0, err |-> "nil",
     banner |-> "none", bcancel |-> FALSE, timeout |-> "none", tcancel |-> FALSE,
     closes |-> 0, tclosed |-> FALSE, seen |-> 0, tick |-> 0, raw |-> 0,
     tlsTried |-> FALSE, tlsUnwrap |-> FALSE, hash |-> <<>>,
     delivered |-> "none", drvState |-> "none", drv |-> <<>>, lnCopy |-> 0]

\* The stream a sniffer reads from.
Source(c) == IF c.mux.src = "wire" THEN c.sock ELSE c.clear

\* The connection was closed on this side (by the handler, the timeout task
\* or the driver).
Closed(c) == c.closes > 0 \/ c.tclosed \/ c.drvState = "closed"

\* lines 88-93: the accept goroutine of a listener takes a connection and
\* starts its handler.
Accept(k, ip, port, sc) ==
    /\ ~crashed
    /\ acceptTasks[port] > 0
    /\ conn[k].pc = "free"
    /\ accepted < MaxAccepts
    /\ accepted' = accepted + 1
    /\ conn' = [conn EXCEPT ![k] =
                  [FreeConn EXCEPT !.pc = "ban", !.ip = ip, !.port = port,
                                   !.script = sc, !.sock = sc.stream,
                                   !.clear = sc.clear, !.seen = strikes[ip]]]
    /\ UNCHANGED <<strikes, knownHashes, storeChan, connCh, patterns, rawSent>>
    /\ UNCHANGED <<lvars, xvars>>

\* The ban branch without its return (a variant of lines 105-111).
BanCheck_FallThrough(k) ==
    /\ conn[k].pc = "ban"
    /\ strikes' = [strikes EXCEPT ![conn[k].ip] = Ticked(conn[k].ip)]
    /\ conn' = [conn EXCEPT ![k] =
                  IF Banned(Ticked(conn[k].ip))
                    THEN [@ EXCEPT !.tick = Ticked(conn[k].ip), !.closes = @ + 1,
                                   !.pc = "wrap"]
                    ELSE [@ EXCEPT !.tick = Ticked(conn[k].ip), !.pc = "wrap"]]
    /\ UNCHANGED <<knownHashes, storeChan, connCh, patterns, accepted, rawSent>>
    /\ UNCHANGED <<lvars, xvars>>
\* lines 105-111: tickBan; a banned address is closed and the handler returns.
BanCheck(k) ==
    /\ conn[k].pc = "ban"
    /\ strikes' = [strikes EXCEPT ![conn[k].ip] = Ticked(conn[k].ip)]
    /\ conn' = [conn EXCEPT ![k] =
                  IF Banned(Ticked(conn[k].ip))
                    THEN [@ EXCEPT !.tick = Ticked(conn[k].ip), !.closes = @ + 1,
                                   !.pc = "done"]
                    ELSE [@ EXCEPT !.tick = Ticked(conn[k].ip), !.pc = "wrap"]]
    /\ UNCHANGED <<knownHashes, storeChan, connCh, patterns, accepted, rawSent>>
    /\ UNCHANGED <<lvars, xvars>>

\* lines 113-124: the sniffer is created and set sniffing; the banner and the
\* timeout goroutines are started, each under its own cancellable context.
Wrap(k) ==
    /\ conn[k].pc = "wrap"
    /\ conn' = [conn EXCEPT ![k] =
                  [@ EXCEPT !.mux = StartSniffing(NewMuxConn("wire")),
                            !.banner = "armed", !.timeout = "armed",
                            !.pc = "read"]]
    /\ UNCHANGED <<strikes, knownHashes, storeChan, connCh, patterns, accepted, rawSent>>
    /\ UNCHANGED <<lvars, xvars>>

\* sendBanner: after its delay, unless cancelled, write the port's banner.
BannerFire(k) ==
    /\ conn[k].banner = "armed"
    /\ ~conn[k].bcancel
    /\ conn' = [conn EXCEPT ![k] =
                  [@ EXCEPT !.banner = IF conn[k].port \in BannerPorts /\ ~Closed(conn[k])
                                         THEN "written" ELSE "silent"]]
    /\ UNCHANGED <<strikes, knownHashes, storeChan, connCh, patterns, accepted, rawSent>>
    /\ UNCHANGED <<lvars, xvars>>

\* timeoutConnection: after the idle deadline, unless cancelled, close.
TimeoutFire(k) ==
    /\ conn[k].timeout = "armed"
    /\ ~conn[k].tcancel
    /\ conn' = [conn EXCEPT ![k] = [@ EXCEPT !.timeout = "fired", !.tclosed = TRUE]]
    /\ UNCHANGED <<strikes, knownHashes, storeChan, connCh, patterns, accepted, rawSent>>
    /\ UNCHANGED <<lvars, xvars>>

\* lines 127-137: n, err := r.Read(buf), t bytes arriving; a non-EOF error
\* closes the sniffer (and execution continues at line 138).
ReadSniff(k, t) ==
    LET c == conn[k]
        res == MuxRead(c.mux, c.sock, BufLen, t)
    IN
    /\ c.pc = "read"
    /\ IF Closed(c) \/ c.script.mode = "rst"
         THEN /\ t = 0
              /\ conn' = [conn EXCEPT ![k] =
                            [@ EXCEPT !.err = "error", !.n = 0, !.closes = @ + 1,
                                      !.pc = "cancel"]]
         ELSE IF c.sock # <<>>
           THEN /\ t \in 1..Min(BufLen, Len(c.sock))
                /\ conn' = [conn EXCEPT ![k] =
                              [@ EXCEPT !.buf = Fill(res.out), !.n = Len(res.out),
                                        !.mux = res.mux, !.sock = res.rest,
                                        !.pc = "cancel"]]
           ELSE /\ t = 0
                /\ c.script.mode = "eof"
                /\ conn' = [conn EXCEPT ![k] =
                              [@ EXCEPT !.err = "EOF", !.n = 0, !.pc = "cancel"]]
    /\ UNCHANGED <<strikes, knownHashes, storeChan, connCh, patterns, accepted, rawSent>>
    /\ UNCHANGED <<lvars, xvars>>

\* The cancellation without timeoutCancel() (a variant of lines 138-139).
CancelTasks_BannerOnly(k) ==
    /\ conn[k].pc = "cancel"
    /\ conn' = [conn EXCEPT ![k] = [@ EXCEPT !.bcancel = TRUE, !.pc = "tls"]]
    /\ UNCHANGED <<strikes, knownHashes, storeChan, connCh, patterns, accepted, rawSent>>
    /\ UNCHANGED <<lvars, xvars>>
\* lines 138-139: bannerCancel(); timeoutCancel()
CancelTasks(k) ==
    /\ conn[k].pc = "cancel"
    /\ conn' = [conn EXCEPT ![k] =
                  [@ EXCEPT !.bcancel = TRUE, !.tcancel = TRUE, !.pc = "tls"]]
    /\ UNCHANGED <<strikes, knownHashes, storeChan, connCh, patterns, accepted, rawSent>>
    /\ UNCHANGED <<lvars, xvars>>

\* unwrapTLS on a sniffer set done sniffing: the handshake reads j bytes of
\* the wire past the sniffed ones; when it succeeds the result is a new
\* sniffer over the cleartext stream and the first t cleartext bytes, sniffed.
UnwrapTLS(c, j, t) ==
    IF c.script.tls = "ok" /\ ~Closed(c)
      THEN LET m == StartSniffing(NewMuxConn("clear"))
               res == MuxRead(m, c.clear, BufLen, t)
           IN  [ok |-> TRUE, sock |-> <<>>, mux |-> res.mux, clear |-> res.rest,
                buf |-> Fill(res.out), n |-> Len(res.out)]
      ELSE [ok |-> FALSE, sock |-> Drop(c.sock, j), mux |-> c.mux, clear |-> c.clear,
            buf |-> c.buf, n |-> c.n]

\* lines 141-152: a first byte of 0x16 starts the TLS unwrap. The handshake
\* blocks while the client neither completes it nor goes away.
TryTLS(k, j, t) ==
    LET c == conn[k]
        d == [c EXCEPT !.mux = DoneSniffing(c.mux)]
        u == UnwrapTLS(d, j, t)
    IN
    /\ c.pc = "tls"
    /\ IF c.buf[1] = TLSByte
         THEN /\ j \in (IF Closed(c) THEN {0} ELSE 0..Len(c.sock))
              /\ c.script.tls = "stall" => Closed(c)
              /\ IF c.script.tls = "ok" /\ ~Closed(c)
                   THEN /\ j = Len(c.sock)
                        /\ t \in {Min(BufLen, Len(c.clear))}
                   ELSE t = 0
              /\ conn' = [conn EXCEPT ![k] =
                            [@ EXCEPT !.tlsTried = TRUE, !.tlsUnwrap = u.ok,
                                      !.mux = u.mux, !.sock = u.sock,
                                      !.clear = u.clear, !.buf = u.buf, !.n = u.n,
                                      !.pc = "reset"]]
         ELSE /\ j = 0 /\ t = 0
              /\ conn' = [conn EXCEPT ![k] = [@ EXCEPT !.pc = "reset"]]
    /\ UNCHANGED <<strikes, knownHashes, storeChan, connCh, patterns, accepted, rawSent>>
    /\ UNCHANGED <<lvars, xvars>>

\* lines 153-161: muc.Reset(); hash := drivers.GetHash(buf[:n])
ResetAndHash(k) ==
    /\ conn[k].pc = "reset"
    /\ conn' = [conn EXCEPT ![k] =
                  [@ EXCEPT !.mux = Reset(conn[k].mux),
                            !.hash = GetHash(Take(conn[k].buf, conn[k].n)),
                            !.pc = "capture"]]
    /\ UNCHANGED <<strikes, knownHashes, storeChan, connCh, patterns, accepted, rawSent>>
    /\ UNCHANGED <<lvars, xvars>>

\* store.File{Filename: hash, Location: "raw", Data: buf[:n]}
RawFile(c) == [Filename |-> c.hash, Location |-> "raw", Data |-> Take(c.buf, c.n)]

\* lines 163-168: the raw artifact is sent unless the hash is known.
Capture(k) ==
    /\ conn[k].pc = "capture"
    /\ IF conn[k].n > 0 /\ conn[k].hash \notin knownHashes
         THEN /\ storeChan' = Append(storeChan, RawFile(conn[k]))
              /\ rawSent' = Append(rawSent, conn[k].hash)
              /\ conn' = [conn EXCEPT ![k] = [@ EXCEPT !.raw = @ + 1, !.pc = "route"]]
         ELSE /\ UNCHANGED <<storeChan, rawSent>>
              /\ conn' = [conn EXCEPT ![k] = [@ EXCEPT !.pc = "route"]]
    /\ UNCHANGED <<strikes, knownHashes, connCh, patterns, accepted>>
    /\ UNCHANGED <<lvars, xvars>>

\* line 171: entry := s.tcpRules.Match(buf)
RouteEntry(c) == Match(c.buf)

\* lines 170-189: the connection goes to the matching driver's ConnCh, or is
\* closed when no rule matches. ln is the value the type assertion of line
\* 175 yields, a copy of the MuxListener: line 178 sets the copy's Listener
\* field, and the copy's ConnCh is the driver's channel.
Route(k) ==
    LET d == RouteEntry(conn[k]) IN
    /\ conn[k].pc = "route"
    /\ IF d # "none"
         THEN /\ connCh' = [connCh EXCEPT ![d] = Append(@, k)]
              /\ conn' = [conn EXCEPT ![k] =
                            [@ EXCEPT !.mux = Reset(conn[k].mux), !.delivered = d,
                                      !.lnCopy = conn[k].port,
                                      !.drvState = "queued", !.pc = "done"]]
         ELSE /\ connCh' = connCh
              /\ conn' = [conn EXCEPT ![k] =
                            [@ EXCEPT !.mux = Reset(conn[k].mux), !.closes = @ + 1,
                                      !.pc = "done"]]
    /\ UNCHANGED <<strikes, knownHashes, storeChan, patterns, accepted, rawSent>>
    /\ UNCHANGED <<lvars, xvars>>

\* ------------------------------------------------------------- drivers

\* ln.Addr() of the synthetic listener driver d serves: the port of the
\* listener in its Listener field (0: the field is nil).
DriverAddr(d) == lnListener[d]

\* ServeTCP, lines 33-38 of the driver: ln.Accept() takes the next
\* connection from ConnCh.
DriverAccept(d) ==
    /\ connCh[d] # <<>>
    /\ connCh' = [connCh EXCEPT ![d] = Tail(@)]
    /\ conn' = [conn EXCEPT ![Head(connCh[d])] = [@ EXCEPT !.drvState = "serving"]]
    /\ UNCHANGED <<strikes, knownHashes, storeChan, patterns, accepted, rawSent>>
    /\ UNCHANGED <<lvars, xvars>>

\* The driver reads from the connection it was given.
DriverRead(k) ==
    LET c == conn[k]
        res == MuxRead(c.mux, Source(c), BufLen, Min(BufLen, Len(Source(c))))
    IN
    /\ c.drvState = "serving"
    /\ c.closes = 0 /\ ~c.tclosed
    /\ Replaying(c.mux) \/ Source(c) # <<>>
    /\ conn' = [conn EXCEPT ![k] =
                  [@ EXCEPT !.drv = c.drv \o res.out, !.mux = res.mux,
                            !.sock = IF c.mux.src = "wire" THEN res.rest ELSE c.sock,
                            !.clear = IF c.mux.src = "clear" THEN res.rest ELSE c.clear]]
    /\ UNCHANGED <<strikes, knownHashes, storeChan, connCh, patterns, accepted, rawSent>>
    /\ UNCHANGED <<lvars, xvars>>

\* The driver is done with the connection: defer conn.Close().
DriverClose(k) ==
    /\ conn[k].drvState = "serving"
    /\ conn' = [conn EXCEPT ![k] = [@ EXCEPT !.drvState = "closed"]]
    /\ UNCHANGED <<strikes, knownHashes, storeChan, connCh, patterns, accepted, rawSent>>
    /\ UNCHANGED <<lvars, xvars>>

\* A finished connection leaves its slot to the next one.
Release(k) ==
    /\ conn[k].pc = "done"
    /\ conn[k].drvState \in {"none", "closed"}
    /\ accepted < MaxAccepts
    /\ conn' = [conn EXCEPT ![k] = FreeConn]
    /\ UNCHANGED <<strikes, knownHashes, storeChan, connCh, patterns, accepted, rawSent>>
    /\ UNCHANGED <<lvars, xvars>>

\* ------------------------------------------------------------ tcpManager

\* The outcomes of conn.ReadFrom (line 29): a packet, an error that comes
\* with a source address, or an error that comes with none (addr is nil).
ReadResults == {"ok", "error", "error_noaddr"}

\* No packet read yet.
NoPkt == [res |-> "none", flags |-> {}, dport |-> 1, called |-> FALSE]

\* lines 26-50: one iteration of the loop of tcpManager's goroutine. On a read
\* error line 33 evaluates addr.String(): with a nil addr the goroutine
\* panics, which ends the process. called: CreateTCPListener was called.
ReadFrom(r, flags, dport) ==
    /\ ~crashed
    /\ cpc[Observer] = "idle"
    /\ IF r # "ok"
         THEN /\ pkt' = [res |-> r, flags |-> {}, dport |-> 1, called |-> FALSE]
              /\ crashed' = (r = "error_noaddr")
              /\ UNCHANGED <<tcpListeners, osBound, extBusy, acceptTasks, mapWriting,
                             cpc, cport, cret, clate, requested>>
              /\ UNCHANGED <<hvars, evars>>
         ELSE /\ pkt' = [res |-> r, flags |-> flags, dport |-> dport,
                         called |-> ("SYN" \in flags)]
              /\ IF "SYN" \in flags
                   THEN Enter(Observer, dport)
                   ELSE UNCHANGED <<lvars, hvars, evars>>

\* ------------------------------------------------ the address to bind

\* The longest list of local addresses.
MaxAddrs == 3

\* A local address: its text, whether privateIP holds of it, whether To4()
\* is non-nil.
Addr(ip, private, v4) == [ip |-> ip, private |-> private, v4 |-> v4]
AddrPool ==
    { Addr("198.51.100.1", FALSE, TRUE),
      Addr("203.0.113.2", FALSE, TRUE),
      Addr("10.0.0.3", TRUE, TRUE),
      Addr("2001:db8::4", FALSE, FALSE) }
AddrLists == UNION {[1..m -> AddrPool] : m \in 0..MaxAddrs}

\* The values of config.BindAddress: unset, "public", a literal address.
BindAddresses == {"", "public", "192.0.2.7"}

\* lines 64-66 and 72-74: the default, and the literal configured address.
SelectBegin ==
    /\ ai = 0
    /\ IF bindAddress = ""
         THEN address' = "0.0.0.0" /\ ai' = Len(addresses) + 1
         ELSE IF bindAddress = "public"
           THEN address' = "0.0.0.0" /\ ai' = 1
           ELSE address' = bindAddress /\ ai' = Len(addresses) + 1
    /\ UNCHANGED <<bindAddress, addresses, outputFolder, s3Key, uploader, dirs,
                   files, setup, storeLog, lnListener, rdp, pkt>>
    /\ UNCHANGED <<lvars, hvars>>

\* lines 67-71: one iteration of the range over s.addresses (there is no break).
SelectNext ==
    /\ ai \in 1..Len(addresses)
    /\ address' = IF ~addresses[ai].private /\ addresses[ai].v4
                    THEN addresses[ai].ip ELSE address
    /\ ai' = ai + 1
    /\ UNCHANGED <<bindAddress, addresses, outputFolder, s3Key, uploader, dirs,
                   files, setup, storeLog, lnListener, rdp, pkt>>
    /\ UNCHANGED <<lvars, hvars>>

\* The selection has run to line 76.
Selected == ai = Len(addresses) + 1

\* ------------------------------------------------------------------ store

\* Records consumed in one run.
MaxRecords == 2

\* A path is the sequence of its parts: "/" or a piece of a name. The working
\* directory (os.Getwd) and the configured folders.
Cwd == <<"/", "d">>
OutputFolders == {<<>>, <<".">>, <<"/", "d">>, <<"/", "d", "/">>}
S3Keys == {"", "secret"}

\* The directory or file a path names: its components, each the pieces
\* between two separators joined ("/d" + "raw" is the one component "draw").
RECURSIVE Components(_)
Components(p) ==
    IF p = <<>> THEN <<>>
    ELSE LET rest == Components(Tail(p)) IN
         IF Head(p) = "/" THEN rest
         ELSE IF Len(p) = 1 \/ p[2] = "/"
           THEN <<<<Head(p)>>>> \o rest
           ELSE <<<<Head(p)>> \o Head(rest)>> \o Tail(rest)

Parent(c) == SubSeq(c, 1, Len(c) - 1)

\* os.Mkdir(path, 0755): fails when the directory exists or its parent is
\* missing; the directories afterwards.
Mkdir(ds, path) ==
    LET c == Components(path) IN
    IF c \in ds \/ Parent(c) \notin ds
      THEN [ok |-> FALSE, dirs |-> ds]
      ELSE [ok |-> TRUE, dirs |-> ds \cup {c}]

\* setupStore (lines 34-65).
SetupStore ==
    LET folder == IF outputFolder = <<".">> THEN Cwd \o <<"/">> ELSE outputFolder
        r1 == Mkdir(dirs, folder \o <<"raw">>)
        r2 == Mkdir(r1.dirs, folder \o <<"sessions">>)
    IN
    /\ setup = "init"
    /\ outputFolder' = folder
    /\ IF folder # <<>> /\ ~r1.ok
         THEN dirs' = dirs /\ setup' = "err" /\ uploader' = uploader
         ELSE IF folder # <<>> /\ ~r2.ok
           THEN dirs' = r1.dirs /\ setup' = "err" /\ uploader' = uploader
           ELSE /\ dirs' = IF folder # <<>> THEN r2.dirs ELSE dirs
                /\ setup' = "ok"
                /\ uploader' = (s3Key # "")
    /\ UNCHANGED <<bindAddress, addresses, address, ai, s3Key, files, storeLog,
                   lnListener, rdp, pkt>>
    /\ UNCHANGED <<lvars, hvars>>

\* The records sent on storeChan in a run of the store alone.
StoreFiles ==
    { [Filename |-> "hash", Location |-> "raw", Data |-> <<71>>],
      [Filename |-> "uuid-1", Location |-> "sessions", Data |-> <<3, 0>>] }

\* The path Store writes a record to (line 18).
StorePath(f) == outputFolder \o <<"/", f.Location, "/", f.Filename>>

\* Store that returns at the first failed sink (a variant of lines 18-21).
Store_ReturnOnError(f, fl, fs) ==
    LET wrote == Parent(Components(StorePath(f))) \in dirs /\ ~fl IN
    [local |-> IF outputFolder = <<>> THEN "off" ELSE IF wrote THEN "ok" ELSE "failed",
     s3    |-> IF ~uploader \/ (outputFolder # <<>> /\ ~wrote) THEN "off"
               ELSE IF fs THEN "failed" ELSE "ok",
     files |-> IF outputFolder # <<>> /\ wrote
                 THEN files \cup {Components(StorePath(f))} ELSE files]
\* Store (lines 15-32) of the record f; fl, fs: the file write, the upload
\* fails for a reason of its own (disk full, S3 5xx). What each sink did and
\* the files afterwards.
Store(f, fl, fs) ==
    LET wrote == Parent(Components(StorePath(f))) \in dirs /\ ~fl IN
    [local |-> IF outputFolder = <<>> THEN "off" ELSE IF wrote THEN "ok" ELSE "failed",
     s3    |-> IF ~uploader THEN "off" ELSE IF fs THEN "failed" ELSE "ok",
     files |-> IF outputFolder # <<>> /\ wrote
                 THEN files \cup {Components(StorePath(f))} ELSE files]

\* A handler or a driver sends a record on storeChan.
StoreSend(f) ==
    /\ setup = "ok"
    /\ Len(storeChan) + Len(storeLog) < MaxRecords
    /\ storeChan' = Append(storeChan, f)
    /\ UNCHANGED <<conn, strikes, knownHashes, connCh, patterns, accepted, rawSent>>
    /\ UNCHANGED <<lvars, xvars>>

\* The consumer of storeChan: it takes the next record and calls Store.
Consume(fl, fs) ==
    LET f == Head(storeChan)
        r == Store(f, fl, fs)
    IN
    /\ setup = "ok"
    /\ storeChan # <<>>
    /\ storeChan' = Tail(storeChan)
    /\ files' = r.files
    /\ storeLog' = Append(storeLog, [file |-> f, local |-> r.local, s3 |-> r.s3])
    /\ UNCHANGED <<conn, strikes, knownHashes, connCh, patterns, accepted, rawSent>>
    /\ UNCHANGED <<bindAddress, addresses, address, ai, outputFolder, s3Key,
                   uploader, dirs, setup, lnListener, rdp, pkt>>
    /\ UNCHANGED lvars

\* ------------------------------------------------------------- rdp driver

\* hdr.Size is a uint16.
W16 == 65536
\* line 49: hdr.Size-7
TPKTOverhead == 7

\* The values of the two bytes of Size on the wire.
SizeBytes == {0, 1, TPKTOverhead - 1, TPKTOverhead, TPKTOverhead + 1, 255}
\* Payload bytes the client sends after the header.
PayloadSent == 0..2

\* line 49: make([]byte, hdr.Size-7), in uint16 arithmetic.
PayloadLen(size) == (size - TPKTOverhead) % W16

\* The goroutine of lines 42-59 and its connection. hi, lo: the bytes of Size
\* the client sent; full: the client sent a whole header; avail: the payload
\* bytes it sent after it.
RdpConn(hi, lo, full, avail) ==
    [pc |-> "hdr", hi |-> hi, lo |-> lo, full |-> full, avail |-> avail,
     Size |-> 0, blen |-> 0, got |-> 0, sent |-> 0, closed |-> FALSE,
     sentOpen |-> FALSE]
RdpIdle == [RdpConn(0, 0, FALSE, 0) EXCEPT !.pc = "idle"]

\* line 48: struc.Unpack(conn, hdr); a failed read leaves hdr zero-valued,
\* and the error is dropped.
RdpHeader ==
    /\ rdp.pc = "hdr"
    /\ rdp' = [rdp EXCEPT !.Size = IF rdp.full THEN rdp.hi * 256 + rdp.lo ELSE 0,
                          !.pc = "alloc"]
    /\ UNCHANGED <<bindAddress, addresses, address, ai, outputFolder, s3Key,
                   uploader, dirs, files, setup, storeLog, lnListener, pkt>>
    /\ UNCHANGED <<lvars, hvars>>

\* line 49: b := make([]byte, hdr.Size-7)
RdpAlloc ==
    /\ rdp.pc = "alloc"
    /\ rdp' = [rdp EXCEPT !.blen = PayloadLen(rdp.Size), !.pc = "payload"]
    /\ UNCHANGED <<bindAddress, addresses, address, ai, outputFolder, s3Key,
                   uploader, dirs, files, setup, storeLog, lnListener, pkt>>
    /\ UNCHANGED <<lvars, hvars>>

\* line 51: struc.Unpack(conn, &b) reads what the client sent, up to len(b).
RdpPayload ==
    /\ rdp.pc = "payload"
    /\ rdp' = [rdp EXCEPT !.got = IF rdp.full THEN Min(rdp.avail, rdp.blen) ELSE 0,
                          !.pc = "store"]
    /\ UNCHANGED <<bindAddress, addresses, address, ai, outputFolder, s3Key,
                   uploader, dirs, files, setup, storeLog, lnListener, pkt>>
    /\ UNCHANGED <<lvars, hvars>>

\* lines 54-58: the session artifact, named <uuid>-<sequence>; Data is b,
\* kept here as its length and the number of bytes read into it.
RdpFile(r) ==
    [Filename |-> <<"uuid", "sequence">>, Location |-> "sessions",
     Data |-> [len |-> r.blen, read |-> r.got]]

RdpStore ==
    /\ rdp.pc = "store"
    /\ storeChan' = Append(storeChan, RdpFile(rdp))
    /\ rdp' = [rdp EXCEPT !.sent = @ + 1, !.sentOpen = ~rdp.closed, !.pc = "close"]
    /\ UNCHANGED <<conn, strikes, knownHashes, connCh, patterns, accepted, rawSent>>
    /\ UNCHANGED <<bindAddress, addresses, address, ai, outputFolder, s3Key,
                   uploader, dirs, files, setup, storeLog, lnListener, pkt>>
    /\ UNCHANGED lvars

\* line 44: defer conn.Close()
RdpClose ==
    /\ rdp.pc = "close"
    /\ rdp' = [rdp EXCEPT !.closed = TRUE, !.pc = "done"]
    /\ UNCHANGED <<bindAddress, addresses, address, ai, outputFolder, s3Key,
                   uploader, dirs, files, setup, storeLog, lnListener, pkt>>
    /\ UNCHANGED <<lvars, hvars>>

\* ------------------------------------------------------------ specification

\* The parts of the manager a specification does not exercise, at rest.
ObserverIdle == pkt = NoPkt
BindIdle ==
    /\ bindAddress = "" /\ addresses = <<>> /\ address = "0.0.0.0" /\ ai = 1
StoreIdle ==
    /\ outputFolder = <<>> /\ s3Key = "" /\ uploader = FALSE
    /\ dirs = {<<>>} /\ files = {} /\ setup = "ok" /\ storeLog = <<>>
DriversIdle ==
    /\ lnListener = [d \in DriverSet |-> 0]
    /\ rdp = RdpIdle

Init ==
    /\ tcpListeners = [p \in Ports |-> 0]
    /\ osBound = [p \in Ports |-> 0]
    /\ extBusy \in SUBSET {1}
    /\ acceptTasks = [p \in Ports |-> 0]
    /\ mapWriting = FALSE
    /\ crashed = FALSE
    /\ cpc = [c \in Callers |-> "idle"]
    /\ cport = [c \in Callers |-> 1]
    /\ cret = [c \in Callers |-> "none"]
    /\ clate = [c \in Callers |-> FALSE]
    /\ requested = {}
    /\ conn = [k \in Conns |-> FreeConn]
    /\ strikes = [i \in IPs |-> 0]
    /\ knownHashes = {}
    /\ storeChan = <<>>
    /\ connCh = [d \in DriverSet |-> <<>>]
    /\ patterns \in {[d \in DriverSet |-> IF d = "rdp" THEN RdpPatterns ELSE a] :
                         a \in AuxPatternSets}
    /\ accepted = 0
    /\ rawSent = <<>>
    /\ ObserverIdle /\ BindIdle /\ StoreIdle /\ DriversIdle

Next ==
    \/ \E f \in FlagSets, p \in Ports : RawRead(f, p)
    \/ \E c \in Callers, p \in Ports : Call(c, p)
    \/ \E c \in Callers : CheckRegistry(c)
    \/ \E c \in Callers : Listen(c)
    \/ \E c \in Callers : StoreBegin(c)
    \/ \E c \in Callers : StoreEnd(c)
    \/ \E c \in Callers : SpawnAccept(c)

Spec == Init /\ [][Next]_vars

\* The handler of accepted connections, from the state in which tcpManager
\* has created the listeners of ports 1..MaxPort (a state Spec reaches).
Listening ==
    /\ tcpListeners = [p \in Ports |-> IF p <= MaxPort THEN Observer ELSE 0]
    /\ osBound = tcpListeners
    /\ extBusy = {}
    /\ acceptTasks = [p \in Ports |-> IF p <= MaxPort THEN 1 ELSE 0]
    /\ mapWriting = FALSE
    /\ crashed = FALSE
    /\ cpc = [c \in Callers |-> "idle"]
    /\ cport = [c \in Callers |-> IF c = Observer THEN MaxPort ELSE 1]
    /\ cret = [c \in Callers |-> IF c = Observer THEN "created" ELSE "none"]
    /\ clate = [c \in Callers |-> FALSE]
    /\ requested = 1..MaxPort

InitConn ==
    /\ Listening
    /\ conn = [k \in Conns |-> FreeConn]
    /\ strikes = [i \in IPs |-> 0]
    /\ knownHashes = {}
    /\ storeChan = <<>>
    /\ connCh = [d \in DriverSet |-> <<>>]
    /\ patterns \in {[d \in DriverSet |-> IF d = "rdp" THEN RdpPatterns ELSE a] :
                         a \in AuxPatternSets}
    /\ accepted = 0
    /\ rawSent = <<>>
    /\ ObserverIdle /\ BindIdle /\ StoreIdle /\ DriversIdle

\* One connection, every client script.
NextConn ==
    \/ \E i \in IPs, p \in Ports, sc \in Scripts : Accept(1, i, p, sc)
    \/ BanCheck(1)
    \/ Wrap(1)
    \/ BannerFire(1)
    \/ TimeoutFire(1)
    \/ \E t \in 0..BufLen : ReadSniff(1, t)
    \/ CancelTasks(1)
    \/ \E j \in 0..BufLen, t \in 0..BufLen : TryTLS(1, j, t)
    \/ ResetAndHash(1)
    \/ Capture(1)
    \/ Route(1)
    \/ \E d \in DriverSet : DriverAccept(d)
    \/ DriverRead(1)
    \/ DriverClose(1)

SpecConn == InitConn /\ [][NextConn]_vars

\* Up to MaxAccepts connections, two of them at a time, for two of the client
\* scripts and one set of patterns; the banner delay and the idle deadline
\* are long enough never to expire.
PairScripts ==
    { Script(<<71, 71>>, "send", "none", <<>>),
      Script(<<>>, "stall", "none", <<>>) }
PairPorts == {1, 2}

InitPair ==
    /\ InitConn
    /\ patterns["aux"] = {<<TLSByte>>, <<71>>}

NextPair ==
    \/ \E k \in Conns, i \in IPs, p \in PairPorts, sc \in PairScripts : Accept(k, i, p, sc)
    \/ \E k \in Conns : BanCheck(k)
    \/ \E k \in Conns : Wrap(k)
    \/ \E k \in Conns, t \in 0..BufLen : ReadSniff(k, t)
    \/ \E k \in Conns : CancelTasks(k)
    \/ \E k \in Conns : TryTLS(k, 0, 0)
    \/ \E k \in Conns : ResetAndHash(k)
    \/ \E k \in Conns : Capture(k)
    \/ \E k \in Conns : Route(k)
    \/ \E d \in DriverSet : DriverAccept(d)
    \/ \E k \in Conns : DriverRead(k)
    \/ \E k \in Conns : DriverClose(k)
    \/ \E k \in Conns : Release(k)

SpecPair == InitPair /\ [][NextPair]_vars

\* tcpManager's goroutine alone: every outcome of a read of the raw socket.
NextObs ==
    \/ \E r \in ReadResults, f \in FlagSets, p \in Ports : ReadFrom(r, f, p)
    \/ CheckRegistry(Observer)
    \/ Listen(Observer)
    \/ StoreBegin(Observer)
    \/ StoreEnd(Observer)
    \/ SpawnAccept(Observer)

SpecObs == Init /\ [][NextObs]_vars

\* One connection whose handler and timeout task are scheduled: a step that
\* can be taken is taken, and an idle deadline that is not cancelled expires.
Fairness ==
    /\ WF_vars(BanCheck(1))
    /\ WF_vars(Wrap(1))
    /\ WF_vars(TimeoutFire(1))
    /\ WF_vars(\E t \in 0..BufLen : ReadSniff(1, t))
    /\ WF_vars(CancelTasks(1))
    /\ WF_vars(\E j \in 0..BufLen, t \in 0..BufLen : TryTLS(1, j, t))
    /\ WF_vars(ResetAndHash(1))
    /\ WF_vars(Capture(1))
    /\ WF_vars(Route(1))

SpecLive == InitConn /\ [][NextConn]_vars /\ Fairness

\* The manager with its listeners up and no connection.
AtRest ==
    /\ Listening
    /\ conn = [k \in Conns |-> FreeConn]
    /\ strikes = [i \in IPs |-> 0]
    /\ knownHashes = {}
    /\ storeChan = <<>>
    /\ connCh = [d \in DriverSet |-> <<>>]
    /\ patterns = [d \in DriverSet |-> IF d = "rdp" THEN RdpPatterns ELSE {}]
    /\ accepted = 0
    /\ rawSent = <<>>

\* The address selection of CreateTCPListener, for every configuration.
InitBind ==
    /\ AtRest /\ ObserverIdle /\ StoreIdle /\ DriversIdle
    /\ bindAddress \in BindAddresses
    /\ addresses \in AddrLists
    /\ address = ""
    /\ ai = 0

NextBind ==
    \/ SelectBegin
    \/ SelectNext

SpecBind == InitBind /\ [][NextBind]_vars

\* The store: setupStore at start, then the consumer of storeChan. The folder
\* /d exists; its subdirectories raw and sessions may exist already.
SubDirs == {<<<<"d">>, <<"raw">>>>, <<<<"d">>, <<"sessions">>>>}

InitStore ==
    /\ AtRest /\ ObserverIdle /\ BindIdle /\ DriversIdle
    /\ outputFolder \in OutputFolders
    /\ s3Key \in S3Keys
    /\ uploader = FALSE
    /\ dirs \in {{<<>>, <<<<"d">>>>} \cup x : x \in SUBSET SubDirs}
    /\ files = {}
    /\ setup = "init"
    /\ storeLog = <<>>

NextStore ==
    \/ SetupStore
    \/ \E f \in StoreFiles : StoreSend(f)
    \/ \E fl \in BOOLEAN, fs \in BOOLEAN : Consume(fl, fs)

SpecStore == InitStore /\ [][NextStore]_vars

\* One connection served by the rdp driver, for every header on the wire.
InitRdp ==
    /\ AtRest /\ ObserverIdle /\ BindIdle /\ StoreIdle
    /\ lnListener = [d \in DriverSet |-> 0]
    /\ rdp \in {RdpConn(hi, lo, full, avail) :
                    hi \in SizeBytes, lo \in SizeBytes, full \in BOOLEAN,
                    avail \in PayloadSent}

NextRdp ==
    \/ RdpHeader
    \/ RdpAlloc
    \/ RdpPayload
    \/ RdpStore
    \/ RdpClose

SpecRdp == InitRdp /\ [][NextRdp]_vars

\* ------------------------------------------------------------------ claims

\* The callers that have called CreateTCPListener(p) and whose call is in
\* progress or has returned.
CallersOf(p) ==
    {c \in Callers : cport[c] = p /\ (cpc[c] # "idle" \/ cret[c] # "none")}

\* No call for p can take another step: each has returned, or the process died.
Settled(p) == crashed \/ \A c \in CallersOf(p) : cpc[c] = "idle"

\* C1: when two or more concurrent calls of CreateTCPListener(p), p <= MaxPort
\* and free, have run to their end, exactly one listener is bound for p, one
\* accept task serves it, and the registry holds that listener for p.
C1_OneListenerPerPort ==
    \A p \in Ports :
        (p <= MaxPort /\ p \notin extBusy /\ Cardinality(CallersOf(p)) >= 2 /\ Settled(p))
            => /\ ~crashed
               /\ osBound[p] # 0
               /\ tcpListeners[p] = osBound[p]
               /\ acceptTasks[p] = 1

\* C2: no port above MaxPort is ever bound, registered or accepted on; a call
\* for such a port is rejected at once, before any step that touches the
\* registry, and a call for a port up to MaxPort (MaxPort included) is never
\* rejected.
C2_MaxPortBound ==
    /\ \A p \in Ports :
          p > MaxPort => tcpListeners[p] = 0 /\ osBound[p] = 0 /\ acceptTasks[p] = 0
    /\ \A c \in Callers :
          /\ cport[c] > MaxPort => cpc[c] = "idle" /\ cret[c] = "rejected"
          /\ cport[c] <= MaxPort => cret[c] # "rejected"

\* C2 witness: a listener exists on MaxPort itself and a call was rejected.
C2_Witness ==
    /\ tcpListeners[MaxPort] # 0
    /\ acceptTasks[MaxPort] = 1
    /\ \E c \in Callers : cret[c] = "rejected" /\ cport[c] = MaxPort + 1

\* A call that began when the registry already held its port never gets past
\* the registry check, and returns already-present.
C3_LateCallsDoNothing ==
    \A c \in Callers :
        clate[c] => /\ cpc[c] \in {"check", "idle"}
                    /\ cpc[c] = "idle" => cret[c] = "present"

\* C3: CreateTCPListener is idempotent: a call for a port the registry holds
\* binds nothing, spawns nothing and returns already-present; a registry
\* entry is never removed or overwritten, and a port never gets a second
\* listener or accept task.
C3_Idempotent ==
    /\ [](C3_LateCallsDoNothing /\ \A p \in Ports : acceptTasks[p] <= 1)
    /\ [][\A p \in Ports :
            /\ tcpListeners[p] # 0 => tcpListeners'[p] = tcpListeners[p]
            /\ osBound[p] # 0 => osBound'[p] = osBound[p]]_vars

\* C3 witness: a call made after the listener existed has returned already-present.
C3_Witness ==
    \E c \in Callers :
        /\ clate[c] /\ cpc[c] = "idle" /\ cret[c] = "present"
        /\ tcpListeners[cport[c]] # 0 /\ acceptTasks[cport[c]] = 1

\* The handler of slot k has run to its end without the ban closing it.
Routed(c) == c.pc = "done" /\ ~Banned(c.tick)

\* The bytes the initial read (or the re-sniff after a TLS unwrap) received.
Sniffed(c) == Take(c.buf, c.n)

\* C4: the connection is delivered to the driver whose pattern is the longest
\* prefix of the bytes received, and to no driver (and closed) when no
\* pattern is a prefix of them.
C4_LongestPrefixOfReceived ==
    \A k \in Conns :
        Routed(conn[k]) =>
            /\ conn[k].delivered = Match(Sniffed(conn[k]))
            /\ Match(Sniffed(conn[k])) = "none" => conn[k].closes > 0

\* The bytes the client sent for its driver to see.
ClientBytes(c) == IF c.tlsUnwrap THEN c.script.clear ELSE c.script.stream

\* C5: what the driver has read from a delivered connection is the start of
\* what the client sent, and all of it once nothing is left to read.
C5_DriverSeesClientBytes ==
    \A k \in Conns :
        conn[k].drvState \in {"serving", "closed"} =>
            /\ IsPrefix(conn[k].drv, ClientBytes(conn[k]))
            /\ (/\ conn[k].closes = 0 /\ ~conn[k].tclosed
                /\ ~Replaying(conn[k].mux) /\ Source(conn[k]) = <<>>)
                   => conn[k].drv = ClientBytes(conn[k])

\* C6: no two raw artifacts sent on the capture channel have the same hash.
C6_OneRawPerHash ==
    \A i, j \in 1..Len(rawSent) : rawSent[i] = rawSent[j] => i = j

\* C7: a connection whose source had more than BanThreshold strikes when it
\* was accepted, or whose own strike takes the count above BanThreshold, is
\* closed by the handler with no sniffer, no banner or timeout task, no byte
\* read, no artifact and no driver; any other connection goes on to be wrapped.
C7_BannedClosedAtOnce ==
    \A k \in Conns :
        LET c == conn[k] IN
        c.pc \notin {"free", "ban"} =>
            /\ c.tick >= Min(c.seen + 1, MaxStrikes) /\ c.tick <= strikes[c.ip]
            /\ c.seen > BanThreshold => Banned(c.tick)
            /\ Banned(c.tick) =>
                  /\ c.pc = "done" /\ c.closes = 1
                  /\ c.mux = NoMux /\ c.banner = "none" /\ c.timeout = "none"
                  /\ c.sock = c.script.stream /\ c.n = 0
                  /\ c.raw = 0 /\ c.delivered = "none" /\ c.drvState = "none"
            /\ ~Banned(c.tick) =>
                  /\ c.pc = "wrap" => c.closes = 0 /\ c.mux = NoMux
                  /\ c.pc # "wrap" => c.mux # NoMux /\ c.banner # "none" /\ c.timeout # "none"

\* C7 witness: a connection was closed by the ban while another connection
\* of the run got through to its driver.
C7_Witness ==
    \E k \in Conns :
        /\ conn[k].pc = "done" /\ Banned(conn[k].tick) /\ conn[k].closes = 1
        /\ conn[k].script.stream # <<>>
        /\ rawSent # <<>>

\* The handler is past lines 138-139.
PastCancel(c) == c.pc \in {"tls", "reset", "capture", "route"} \/ Routed(c)

\* C8: once the handler is past the initial read and its error handling, both
\* task contexts are cancelled, whatever the read returned; from then on no
\* banner is written and the timeout task does not close the connection.
C8_TasksCancelledAfterRead ==
    /\ [](\A k \in Conns : PastCancel(conn[k]) => conn[k].bcancel /\ conn[k].tcancel)
    /\ [][\A k \in Conns :
            (PastCancel(conn[k]) /\ conn'[k].pc # "free") =>
                /\ conn'[k].banner = conn[k].banner
                /\ conn'[k].timeout = conn[k].timeout
                /\ conn'[k].tclosed = conn[k].tclosed]_vars

\* C8 witness: the read failed while both tasks were still waiting, and the
\* handler went on with both cancelled.
C8_Witness ==
    \E k \in Conns :
        /\ conn[k].pc = "tls" /\ conn[k].err = "error"
        /\ conn[k].banner = "armed" /\ conn[k].timeout = "armed"
        /\ conn[k].bcancel /\ conn[k].tcancel

\* C9: after a non-EOF error of the initial read the handler attempts no TLS
\* unwrap, sends no raw artifact, delivers to no driver and closes the
\* connection once.
C9_ReadErrorReturns ==
    \A k \in Conns :
        conn[k].err = "error" =>
            /\ ~conn[k].tlsTried
            /\ conn[k].raw = 0
            /\ conn[k].delivered = "none"
            /\ conn[k].closes <= 1

\* C10: after an initial read of zero bytes at EOF no artifact is sent, no
\* driver receives the connection, no TLS unwrap is attempted, and the
\* handler ends with the connection closed.
C10_EmptyReadDropped ==
    \A k \in Conns :
        (conn[k].err = "EOF" /\ conn[k].n = 0) =>
            /\ conn[k].raw = 0
            /\ ~conn[k].tlsTried
            /\ conn[k].delivered = "none"
            /\ conn[k].pc = "done" => conn[k].closes = 1

\* The handler is past line 155: the hash is computed.
Hashed(c) == c.pc \in {"capture", "route"} \/ Routed(c)

\* After an unwrap attempt, buf[:n] is the start of the ciphertext the initial
\* read returned when the unwrap failed, and the start of the cleartext when
\* it succeeded; the hash and the raw artifact are taken from buf[:n].
C11_BufferFollowsUnwrap ==
    \A k \in Conns :
        LET c == conn[k] IN
        (c.tlsTried /\ Hashed(c)) =>
            /\ c.tlsUnwrap => /\ c.script.tls = "ok"
                              /\ c.mux.src = "clear"
                              /\ Sniffed(c) = Take(c.script.clear, c.n)
            /\ ~c.tlsUnwrap => /\ c.mux.src = "wire"
                               /\ c.n > 0
                               /\ Sniffed(c) = Take(c.script.stream, c.n)
                               /\ Sniffed(c) = c.mux.buf
            /\ c.hash = GetHash(Sniffed(c))
            /\ \A i \in 1..Len(storeChan) :
                  /\ storeChan[i] = [Filename |-> GetHash(Sniffed(c)),
                                     Location |-> "raw", Data |-> Sniffed(c)]
                  /\ c.tlsUnwrap => ~IsPrefix(storeChan[i].Data, c.script.stream)

\* C11: when the first sniffed byte is 0x16, the hash, the raw artifact and
\* the routing decision are all taken from the original ciphertext buffer and
\* its length when the unwrap fails (tls_unwrapped false), and from the
\* cleartext buffer and its length when it succeeds (tls_unwrapped true); the
\* ciphertext is then never stored as the raw artifact.
C11_UnwrapOutcomeDecidesAll ==
    /\ C11_BufferFollowsUnwrap
    /\ \A k \in Conns :
          (conn[k].tlsTried /\ Routed(conn[k])) =>
              conn[k].delivered = Match(Sniffed(conn[k]))

\* C12: when the bind of CreateTCPListener fails the call returns the error
\* at once: it inserts nothing into the registry, spawns no accept task and
\* binds nothing (it does not try again); a port held by another program
\* never gets an entry, a listener or an accept task.
C12_BindFailureLeavesNothing ==
    /\ [](\A p \in extBusy :
            tcpListeners[p] = 0 /\ osBound[p] = 0 /\ acceptTasks[p] = 0)
    /\ [](\A c \in Callers : cret[c] = "binderr" => cpc[c] = "idle")
    /\ [][\A c \in Callers :
            (cpc[c] = "listen" /\ cpc'[c] # "listen" /\ ~ListenSucceeds(cport[c])) =>
                /\ cpc'[c] = "idle" /\ cret'[c] = "binderr"
                /\ tcpListeners' = tcpListeners
                /\ osBound' = osBound
                /\ acceptTasks' = acceptTasks]_vars

\* C12 witness: a call for a port held by another program has returned the
\* bind error, and the port has no entry and no accept task.
C12_Witness ==
    \E c \in Callers :
        /\ cret[c] = "binderr" /\ cpc[c] = "idle"
        /\ cport[c] \in extBusy
        /\ tcpListeners[cport[c]] = 0 /\ acceptTasks[cport[c]] = 0

\* C13: Store hands each record to every configured sink: the file system
\* iff OutputFolder is non-empty, the object storage iff an uploader is
\* configured, which is so iff S3Key was set; whether one sink fails has no
\* bearing on the other, and after any outcome the consumer takes the next
\* record.
C13_EverySinkPerRecord ==
    /\ [](uploader <=> (setup = "ok" /\ s3Key # ""))
    /\ [](\A i \in 1..Len(storeLog) :
            LET e == storeLog[i] IN
            /\ e.local # "off" <=> outputFolder # <<>>
            /\ e.s3 # "off" <=> s3Key # ""
            /\ e.local = "ok" =>
                  Components(outputFolder \o <<"/", e.file.Location, "/", e.file.Filename>>)
                      \in files)
    /\ []((setup = "ok" /\ storeChan # <<>>) =>
            ENABLED (\E fl \in BOOLEAN, fs \in BOOLEAN : Consume(fl, fs)))
    /\ [][storeLog' # storeLog =>
            /\ storeChan # <<>> /\ storeChan' = Tail(storeChan)
            /\ Len(storeLog') = Len(storeLog) + 1
            /\ storeLog'[Len(storeLog')].file = Head(storeChan)
            /\ SubSeq(storeLog', 1, Len(storeLog)) = storeLog]_vars

\* C13 witness: with both sinks configured, the file write of one record
\* failed and its upload succeeded; the consumer went on to the next record,
\* whose file was written and whose upload failed.
C13_Witness ==
    /\ Len(storeLog) = 2
    /\ storeLog[1].local = "failed" /\ storeLog[1].s3 = "ok"
    /\ storeLog[2].local = "ok" /\ storeLog[2].s3 = "failed"

\* The directory Store writes the records of a bucket into (line 18).
StoreDir(loc) == Components(outputFolder \o <<"/", loc>>)

\* C14: for every non-empty OutputFolder setupStore succeeds, whether raw/
\* and sessions/ exist already or not, and after it the directories Store
\* writes into, <OutputFolder>/raw and <OutputFolder>/sessions, exist.
C14_SetupStoreMakesDirs ==
    (setup # "init" /\ outputFolder # <<>>) =>
        /\ setup = "ok"
        /\ StoreDir("raw") \in dirs
        /\ StoreDir("sessions") \in dirs

\* C15: the loop of tcpManager calls CreateTCPListener for a packet it has
\* read iff the packet's SYN flag is set and its ACK flag is not; a SYN+ACK
\* packet causes no call.
C15_SynWithoutAckOnly ==
    pkt.res = "ok" =>
        (pkt.called <=> ("SYN" \in pkt.flags /\ "ACK" \notin pkt.flags))

\* C16: after a failed read of the raw socket, with or without a source
\* address, the process is alive and the loop reads again.
C16_ReadFailureContinues ==
    pkt.res \in {"error", "error_noaddr"} =>
        /\ ~crashed
        /\ ENABLED (\E r \in ReadResults, f \in FlagSets, p \in Ports : ReadFrom(r, f, p))

\* C17: the handler of every accepted connection comes to its end, with the
\* connection closed or delivered to a driver, whatever the client does or
\* stops doing.
C17_HandlerTerminates ==
    \A k \in Conns :
        (conn[k].pc \notin {"free", "done"}) ~>
            (conn[k].pc = "done" /\ (Closed(conn[k]) \/ conn[k].delivered # "none"))

\* The first address of a list that is non-private and IPv4; 0.0.0.0 when the
\* list has none.
RECURSIVE FirstPublicV4(_)
FirstPublicV4(as) ==
    IF as = <<>> THEN "0.0.0.0"
    ELSE IF ~Head(as).private /\ Head(as).v4 THEN Head(as).ip
    ELSE FirstPublicV4(Tail(as))

\* C18: CreateTCPListener binds 0.0.0.0 when BindAddress is empty, the first
\* non-private IPv4 address of the discovered list (0.0.0.0 when there is
\* none) when it is "public", and the configured address otherwise.
C18_BindsFirstPublic ==
    Selected =>
        address = IF bindAddress = "" THEN "0.0.0.0"
                  ELSE IF bindAddress = "public" THEN FirstPublicV4(addresses)
                  ELSE bindAddress

\* C19: while a driver handles a connection, the Addr of the driver's
\* synthetic listener is the address of the listener that accepted the
\* connection, also when connections accepted on different ports are with
\* the same driver at the same time.
C19_DriverSeesAcceptingListener ==
    \A k \in Conns :
        conn[k].drvState = "serving" =>
            DriverAddr(conn[k].delivered) = conn[k].port

\* C20: in the rdp driver hdr.Size - 7 never wraps: for every Size the number
\* of payload bytes allocated, read and sent is at most Size, and one
\* artifact <uuid>-<sequence> of bucket "sessions" is sent for the
\* connection, before the connection is closed.
C20_PayloadLenNeverWraps ==
    /\ rdp.pc \in {"payload", "store", "close", "done"} =>
          rdp.blen <= rdp.Size /\ rdp.got <= rdp.Size
    /\ rdp.pc \in {"close", "done"} =>
          /\ rdp.sent = 1 /\ rdp.sentOpen
          /\ Len(storeChan) = 1
          /\ storeChan[1].Filename = <<"uuid", "sequence">>
          /\ storeChan[1].Location = "sessions"
          /\ storeChan[1].Data.len <= rdp.Size
    /\ rdp.pc = "done" => rdp.closed

====
